---- MODULE Spec2Model ----
(***************************************************************************)
(* Collections routes of labrinth (src/src/routes/v2/collections.rs).      *)
(*                                                                         *)
(* State: the relational store (collections rows, collections_mods links), *)
(* the redis cache of collections, the file host's blobs, and the requests *)
(* in flight, each at a position of its handler.  A request's database     *)
(* statements run in a transaction whose writes become visible at commit   *)
(* (read committed, row locks held until the transaction ends).            *)
(***************************************************************************)
EXTENDS Integers, Sequences, FiniteSets, TLC

VARIABLES
    db,      \* collections table: collection id -> row (committed)
    links,   \* collections_mods table: set of <<collection id, project id>> (committed)
    cache,   \* redis: collection id -> cached collection
    blobs,   \* file host: set of stored file names
    req,     \* request slot -> the request being handled there
    workload \* the requests the clients send: the name of an input profile

vars == <<db, links, cache, blobs, req, workload>>

----------------------------------------------------------------------------
(* Bounds of the model *)

MaxColl == 1          \* collection ids that generate_collection_id may hand out
MaxProjList == 2      \* longest project list a request carries

(* Constants of the program *)

IconSizeLimit == 262144
TitleMin == 3
TitleMax == 64
DescMin == 3
CreateDescMax == 255
EditDescMax == 256
CreateProjectsMax == 32
EditProjectsMax == 64

----------------------------------------------------------------------------
(* Options: None is the empty set, Some(x) the singleton *)

None == {}
Some(x) == {x}
The(o) == CHOOSE x \in o : TRUE

----------------------------------------------------------------------------
(* Users, credentials, statuses, projects: the inputs' domains *)

Users == {"alice", "bob", "mod"}
Creators == {"alice"}

\* A credential: the user it belongs to ("none": no credential) and whether it
\* carries the capability the operation requires.
AnonCred == [user |-> "none", scope |-> FALSE]
Creds == {AnonCred} \cup [user : Users, scope : BOOLEAN]

Statuses == {"Listed", "Private", "Approved", "Rejected"}

\* The projects that exist: two named ones; under the "cap" workload, numbered
\* ones, one more than the list of an edit may carry.
NamedProjects == {"p1", "p2"}
ExistingProjects ==
    IF workload = "cap" THEN 1..(EditProjectsMax + 1) ELSE NamedProjects
ProjectInputs == NamedProjects \cup {"nope"}

\* The list of the first n numbered projects.
Upto(n) == [i \in 1..n |-> i]

RECURSIVE SeqsUpTo(_, _)
SeqsUpTo(S, n) ==
    IF n = 0 THEN {<<>>}
    ELSE LET shorter == SeqsUpTo(S, n - 1)
         IN  shorter \cup {Append(q, x) : q \in {r \in shorter : Len(r) = n - 1}, x \in S}

ProjLists == SeqsUpTo(ProjectInputs, MaxProjList)

\* A title: its length in characters and how many of them are surrounding
\* white space.
Titles == {[len |-> 5, pad |-> 2], [len |-> 65, pad |-> 0]}
\* A description: its length in characters.
DescLens == {3, 256, 257}

\* The ids generate_collection_id may hand out; one more under the "frame"
\* workload, which needs a second collection beside the one a request targets.
CollIds == 1..(IF workload = "frame" THEN MaxColl + 1 ELSE MaxColl)

\* An icon payload: its size in bytes and the image it holds.
Payloads == [size : {IconSizeLimit, IconSizeLimit + 1}, img : {"red", "blank", "junk"}]
Exts == {"png", "exe"}

----------------------------------------------------------------------------
(* Input profiles: the values the requests' inputs take under a workload *)

\* Every input of every operation.
AllInputs ==
    [creators |-> {AnonCred} \cup [user : Creators, scope : BOOLEAN],
     creds |-> Creds, titles |-> Titles, descs |-> DescLens,
     edit_titles |-> Titles, edit_descs |-> DescLens, statuses |-> Statuses,
     lists |-> ProjLists, payloads |-> Payloads, exts |-> Exts]

\* Icon requests on collections as create leaves them.
IconInputs ==
    [AllInputs EXCEPT !.titles = {[len |-> 5, pad |-> 2]}, !.descs = {3},
                      !.edit_titles = {[len |-> 5, pad |-> 2]}, !.edit_descs = {3},
                      !.lists = {<<>>, <<"p1">>}, !.statuses = {}]

\* Two requests at a time, sent by the owner.
TwoInputs ==
    [AllInputs EXCEPT !.creators = {[user |-> "alice", scope |-> TRUE]},
                      !.creds = {[user |-> "alice", scope |-> TRUE]},
                      !.titles = {[len |-> 5, pad |-> 2]}, !.descs = {3},
                      !.edit_titles = {[len |-> 5, pad |-> 2]}, !.edit_descs = {3},
                      !.lists = {<<"p1">>}, !.statuses = {}]

\* No project, the longest list an edit accepts (create refuses it), and one
\* project more, sent by the owner, two requests at a time; the edits carry
\* new_projects only.
CapInputs ==
    [creators |-> {[user |-> "alice", scope |-> TRUE]},
     creds |-> {[user |-> "alice", scope |-> TRUE]},
     titles |-> {[len |-> 5, pad |-> 2]}, descs |-> {3},
     edit_titles |-> {}, edit_descs |-> {}, statuses |-> {},
     lists |-> {<<>>, Upto(EditProjectsMax), <<EditProjectsMax + 1>>},
     payloads |-> {}, exts |-> {}]

\* Edits and icon requests of the owner, one at a time, each field of an
\* edit present or absent.
FrameInputs ==
    [creators |-> {[user |-> "alice", scope |-> TRUE]},
     creds |-> {[user |-> "alice", scope |-> TRUE]},
     titles |-> {[len |-> 5, pad |-> 2]}, descs |-> {3},
     edit_titles |-> {[len |-> 5, pad |-> 2]}, edit_descs |-> {256},
     statuses |-> {"Private"}, lists |-> {<<>>, <<"p1">>},
     payloads |-> {[size |-> IconSizeLimit, img |-> "red"]}, exts |-> {"png"}]

W == CASE workload = "icons" -> IconInputs
       [] workload = "frame" -> FrameInputs
       [] workload = "two" -> TwoInputs
       [] workload = "cap" -> CapInputs
       [] OTHER -> AllInputs

\* The project lists the client of slot s sends.  Under the "cap" workload
\* one client sends no project or the longest list, the other the one
\* project more.
ListsFor(s) ==
    IF workload = "cap"
    THEN IF s = "r1" THEN {<<>>, Upto(EditProjectsMax)} ELSE {<<EditProjectsMax + 1>>}
    ELSE W.lists

----------------------------------------------------------------------------
(* Collaborators outside src/ *)

is_mod(u) == u = "mod"

is_hidden(st) == st \in {"Private", "Rejected"}
is_approved(st) == st \in {"Listed", "Private", "Approved"}
can_be_requested(st) == st \in {"Listed", "Private"}

\* get_user_from_headers: the user of the credential, or an error (None here)
\* when there is no credential or it lacks the required scope.
get_user_from_headers(cred) ==
    IF cred.user # "none" /\ cred.scope THEN Some(cred.user) ELSE None

\* auth::checks::is_authorized_collection
is_authorized_collection(item, user_option) ==
    \/ ~is_hidden(item.row.status)
    \/ \E u \in user_option : is_mod(u) \/ u = item.row.user_id

\* validator's length(min, max) and util::validate::validate_name
validate_title(t) == t.len >= TitleMin /\ t.len <= TitleMax /\ t.len - t.pad > 0
trim(t) == [len |-> t.len - t.pad, pad |-> 0]

\* Project::get / Project::get_many
Project_get(p) == IF p \in ExistingProjects THEN Some(p) ELSE None
Project_get_many(ps) == {ps[i] : i \in DOMAIN ps} \cap ExistingProjects

get_image_content_type(ext) == IF ext = "png" THEN Some("image/png") ELSE None

\* util::img::get_color_from_img: an error (here "err") for bytes that do not
\* decode, else the dominant colour if the image has one.
get_color_from_img(payload) ==
    CASE payload.img = "junk" -> [ok |-> FALSE, color |-> None]
      [] payload.img = "blank" -> [ok |-> TRUE, color |-> None]
      [] OTHER -> [ok |-> TRUE, color |-> Some(16711680)]

\* sha1 of the bytes: equal bytes, equal digest.
hexdigest(payload) == payload.img

----------------------------------------------------------------------------
(* The store and the cache *)

Snapshot(c) == [id |-> c, row |-> db[c], projects |-> {l[2] : l \in {k \in links : k[1] = c}}]

\* Collection::get: cache first; on a miss read the store and fill the cache.
Collection_get(c) ==
    IF c \in DOMAIN cache THEN Some(cache[c])
    ELSE IF c \in DOMAIN db THEN Some(Snapshot(c))
    ELSE None

CacheAfterGet(c) ==
    IF c \notin DOMAIN cache /\ c \in DOMAIN db
    THEN [x \in DOMAIN cache \cup {c} |-> IF x = c THEN Snapshot(c) ELSE cache[x]]
    ELSE cache

\* Collection::clear_cache
CacheWithout(c) == [x \in DOMAIN cache \ {c} |-> cache[x]]

NoTx == [state |-> "none", row |-> None, removed |-> FALSE, locked |-> FALSE,
         del |-> {}, ins |-> {}]
OpenTx == [NoTx EXCEPT !.state = "open"]

IdleReq == [kind |-> "idle", pc |-> "idle", cred |-> AnonCred, user |-> None,
            cid |-> 0, item |-> None, title |-> None, description |-> None,
            status |-> None, projects |-> None, todo |-> <<>>,
            ext |-> "", payload |-> None, icon |-> None, result |-> None,
            tx |-> NoTx,
            outcome |-> "none", body |-> {},
            repo_calls |-> 0, asset_calls |-> 0, start |-> None]

Slots == DOMAIN req

Others(s) == Slots \ {s}

\* Another transaction holds the lock of collection row c.
RowLockedByOther(s, c) ==
    \E t \in Others(s) : req[t].tx.state = "open" /\ req[t].cid = c /\ req[t].tx.locked

\* What the store holds of collection c, for comparing before and after.
Committed(c) ==
    IF c \in DOMAIN db THEN Some(Snapshot(c)) ELSE None

----------------------------------------------------------------------------
(* Requests: how a handler ends, and what a transaction's end does *)

\* The handler returns a response.
Done(r, outcome) == [r EXCEPT !.pc = "done", !.outcome = outcome]

\* The handler returns early: its open transaction, if any, is dropped and
\* rolls back.
Abort(r, outcome) ==
    [r EXCEPT !.pc = "done", !.outcome = outcome,
              !.tx.state = IF r.tx.state = "open" THEN "rolledback" ELSE r.tx.state]

\* transaction.commit(): the store after the transaction's writes.
DbAfter(r) ==
    IF r.tx.removed THEN [x \in DOMAIN db \ {r.cid} |-> db[x]]
    ELSE IF r.tx.row # None
         THEN [x \in DOMAIN db \cup {r.cid} |-> IF x = r.cid THEN The(r.tx.row) ELSE db[x]]
         ELSE db

LinksAfter(r) ==
    (links \ {<<r.cid, p>> : p \in r.tx.del}) \cup {<<r.cid, p>> : p \in r.tx.ins}

Committed_(r, outcome) ==
    [r EXCEPT !.pc = "done", !.outcome = outcome, !.tx.state = "committed"]

\* The response has been sent; the worker takes the next request.
Finish(s) ==
    /\ req[s].pc = "done"
    /\ req' = [req EXCEPT ![s] = IdleReq]
    /\ UNCHANGED <<db, links, cache, blobs, workload>>

\* An infrastructure failure (database, redis) at the handler's next await:
\* the error propagates with `?`.
InfraFail(s) ==
    /\ req[s].pc \notin {"idle", "done"}
    /\ req' = [req EXCEPT ![s] = Abort(req[s], "ServerError")]
    /\ UNCHANGED <<db, links, cache, blobs, workload>>

----------------------------------------------------------------------------
(* collection_create *)

CreateValid(title, desc, projects) ==
    /\ validate_title(title)
    /\ desc >= DescMin /\ desc <= CreateDescMax
    /\ Len(projects) <= CreateProjectsMax

\* The id is being inserted by a transaction that has not ended.
IdPending(c) ==
    \E t \in Slots : req[t].kind = "create" /\ req[t].tx.state = "open" /\ req[t].cid = c

CreateBegin(s) ==
    /\ req[s].pc = "idle"
    /\ \E cred \in W.creators,
          title \in W.titles, desc \in W.descs,
          projects \in ListsFor(s) :
        LET r0 == [IdleReq EXCEPT !.kind = "create", !.cred = cred,
                                  !.user = get_user_from_headers(cred),
                                  !.title = Some(title), !.description = Some(desc),
                                  !.projects = Some(projects)]
        IN  IF r0.user = None
            THEN req' = [req EXCEPT ![s] = Done(r0, "Unauthenticated")]
            ELSE IF ~CreateValid(title, desc, projects)
            THEN req' = [req EXCEPT ![s] = Done(r0, "InvalidInput")]
            ELSE \E c \in CollIds :
                    /\ c \notin DOMAIN db
                    /\ ~IdPending(c)
                    /\ LET row == [user_id |-> The(r0.user), title |-> title,
                                   description |-> desc, status |-> "Listed",
                                   icon_url |-> None, color |-> None]
                           initial_project_ids == Project_get_many(projects)
                       IN  req' = [req EXCEPT ![s] =
                              [r0 EXCEPT !.cid = c, !.pc = "create_commit",
                                         !.tx = [OpenTx EXCEPT !.row = Some(row),
                                                               !.ins = initial_project_ids],
                                         !.body = {[id |-> c, row |-> row,
                                                    projects |-> initial_project_ids]}]]
    /\ UNCHANGED <<db, links, cache, blobs, workload>>

\* The row committed without its links.
CreateCommitRowOnly(s) ==
    /\ req[s].pc = "create_commit"
    /\ db' = DbAfter(req[s])
    /\ req' = [req EXCEPT ![s] = Committed_(req[s], "Ok")]
    /\ UNCHANGED <<links, cache, blobs, workload>>

CreateCommit(s) ==
    /\ req[s].pc = "create_commit"
    /\ db' = DbAfter(req[s])
    /\ links' = LinksAfter(req[s])
    /\ req' = [req EXCEPT ![s] = Committed_(req[s], "Ok")]
    /\ UNCHANGED <<cache, blobs, workload>>

----------------------------------------------------------------------------
(* collection_get, collections_get *)


\* collection_get answering 401 for a collection the caller may not see, as
\* the write handlers do.
GetResponseLeaky(collection_data, user_option) ==
    IF collection_data = None THEN [outcome |-> "NotFound", body |-> {}]
    ELSE IF is_authorized_collection(The(collection_data), user_option)
    THEN [outcome |-> "Ok", body |-> collection_data]
    ELSE [outcome |-> "Unauthorized", body |-> {}]

\* The response of collection_get for what Collection::get returned.
GetResponse(collection_data, user_option) ==
    IF \E data \in collection_data : is_authorized_collection(data, user_option)
    THEN [outcome |-> "Ok", body |-> collection_data]
    ELSE [outcome |-> "NotFound", body |-> {}]

\* auth::checks::filter_authorized_collections
filter_authorized_collections(collections_data, user_option) ==
    {data \in collections_data : is_authorized_collection(data, user_option)}

\* Collection::get_many: the collections found, cache first.
Collection_get_many(ids) == UNION {Collection_get(c) : c \in ids}

CacheAfterGetMany(ids) ==
    [x \in DOMAIN cache \cup (ids \cap DOMAIN db) |->
        IF x \in DOMAIN cache THEN cache[x] ELSE Snapshot(x)]

CollectionGet(s) ==
    /\ req[s].pc = "idle"
    /\ \E cred \in W.creds, c \in CollIds :
        LET collection_data == Collection_get(c)
            user_option == get_user_from_headers(cred)
            resp == GetResponse(collection_data, user_option)
        IN  /\ cache' = CacheAfterGet(c)
            /\ req' = [req EXCEPT ![s] =
                   [IdleReq EXCEPT !.kind = "get", !.pc = "done", !.cred = cred,
                                   !.user = user_option, !.cid = c,
                                   !.item = collection_data, !.repo_calls = 1,
                                   !.outcome = resp.outcome, !.body = resp.body]]
    /\ UNCHANGED <<db, links, blobs, workload>>

CollectionsGet(s) ==
    /\ req[s].pc = "idle"
    /\ \E cred \in W.creds, ids \in SUBSET CollIds :
        LET collections_data == Collection_get_many(ids)
            user_option == get_user_from_headers(cred)
        IN  /\ cache' = CacheAfterGetMany(ids)
            /\ req' = [req EXCEPT ![s] =
                   [IdleReq EXCEPT !.kind = "list", !.pc = "done", !.cred = cred,
                                   !.user = user_option, !.repo_calls = 1,
                                   !.item = collections_data,
                                   !.outcome = "Ok",
                                   !.body = filter_authorized_collections(
                                                collections_data, user_option)]]
    /\ UNCHANGED <<db, links, blobs, workload>>


----------------------------------------------------------------------------
(* Statements of a transaction *)

\* UPDATE collections SET <changes> WHERE id = r.cid.  The statement works on
\* the row the transaction already wrote, else on the committed one, and
\* holds the row's lock from then on.  No row with that id: nothing is updated.
CurrentRow(r) == IF r.tx.row # None THEN The(r.tx.row) ELSE db[r.cid]

UpdateRow(r, changes) ==
    IF r.cid \in DOMAIN db
    THEN LET row == CurrentRow(r)
             newrow == [f \in DOMAIN row |->
                           IF f \in DOMAIN changes THEN changes[f] ELSE row[f]]
         IN  [r EXCEPT !.tx.row = Some(newrow), !.tx.locked = TRUE]
    ELSE r

\* The committed links of collection c, and whether another transaction has
\* deleted one of them without having ended.
LinkedProjects(c) == {l[2] : l \in {k \in links : k[1] = c}}

LinkLockedByOther(s, c, ps) ==
    \E t \in Others(s) :
        req[t].tx.state = "open" /\ req[t].cid = c /\ req[t].tx.del \cap ps # {}

LinkInsertedByOther(s, c, p) ==
    \E t \in Others(s) :
        req[t].tx.state = "open" /\ req[t].cid = c /\ p \in req[t].tx.ins

RowRemovedByOther(s, c) ==
    \E t \in Others(s) :
        req[t].tx.state = "open" /\ req[t].cid = c /\ req[t].tx.removed

\* DELETE FROM collections_mods left out: the existing links stay.
DeleteLinksSkipped(r) == r

\* DELETE FROM collections_mods WHERE collection_id = r.cid
DeleteLinks(r) == [r EXCEPT !.tx.del = LinkedProjects(r.cid)]

\* INSERT INTO collections_mods ... ON CONFLICT DO NOTHING
InsertLink(r, p) ==
    IF p \in r.tx.ins \/ (p \in LinkedProjects(r.cid) /\ p \notin r.tx.del)
    THEN r
    ELSE [r EXCEPT !.tx.ins = r.tx.ins \cup {p}]

----------------------------------------------------------------------------
(* collection_edit *)

EditValid(title, description) ==
    /\ \A t \in title : validate_title(t)
    /\ \A d \in description : d >= DescMin /\ d <= EditDescMax

Optional(S) == {None} \cup {Some(x) : x \in S}

\* get_user_from_headers(..).ok(), validate, Collection::get, the
\* authorization check, pool.begin()
EditBegin(s) ==
    /\ req[s].pc = "idle"
    /\ \E cred \in W.creds, c \in CollIds,
          title \in Optional(W.edit_titles),
          description \in Optional(W.edit_descs) :
        LET user_option == get_user_from_headers(cred)
            r0 == [IdleReq EXCEPT !.kind = "edit", !.cred = cred, !.user = user_option,
                                  !.cid = c, !.title = title, !.description = description]
            result == Collection_get(c)
            r1 == [r0 EXCEPT !.repo_calls = 1, !.item = result, !.start = Committed(c)]
        IN  IF ~EditValid(title, description)
            THEN /\ req' = [req EXCEPT ![s] = Done(r0, "Validation")]
                 /\ UNCHANGED cache
            ELSE /\ cache' = CacheAfterGet(c)
                 /\ req' = [req EXCEPT ![s] =
                        IF result = None THEN Done(r1, "NotFound")
                        ELSE IF ~is_authorized_collection(The(result), user_option)
                        THEN Done(r1, "Unauthorized")
                        ELSE [r1 EXCEPT !.pc = "edit_fields", !.tx = OpenTx]]
    /\ UNCHANGED <<db, links, blobs, workload>>


\* The two UPDATEs executed on the pool instead of the transaction: each
\* commits on its own.
EditFieldsOnPool(s) ==
    /\ req[s].pc = "edit_fields"
    /\ LET r == req[s]
           changes == [f \in {"title" : t \in r.title} \cup
                             {"description" : d \in r.description} |->
                          IF f = "title" THEN trim(The(r.title)) ELSE The(r.description)]
       IN  /\ (r.title # None \/ r.description # None) => ~RowLockedByOther(s, r.cid)
           /\ db' = [c \in DOMAIN db |->
                        IF c = r.cid
                        THEN [f \in DOMAIN db[c] |->
                                 IF f \in DOMAIN changes THEN changes[f] ELSE db[c][f]]
                        ELSE db[c]]
           /\ req' = [req EXCEPT ![s].pc = "edit_status"]
    /\ UNCHANGED <<links, cache, blobs, workload>>

\* The UPDATE of title and the UPDATE of description
EditFields(s) ==
    /\ req[s].pc = "edit_fields"
    /\ LET r == req[s]
           r1 == IF r.title = None THEN r
                 ELSE UpdateRow(r, [title |-> trim(The(r.title))])
           r2 == IF r.description = None THEN r1
                 ELSE UpdateRow(r1, [description |-> The(r.description)])
       IN  /\ (r.title # None \/ r.description # None) => ~RowLockedByOther(s, r.cid)
           /\ req' = [req EXCEPT ![s] = [r2 EXCEPT !.pc = "edit_status"]]
    /\ UNCHANGED <<db, links, cache, blobs, workload>>


\* The UPDATE of status without the permission check.
EditStatusNoCheck(s) ==
    /\ req[s].pc = "edit_status"
    /\ \E status \in Optional(W.statuses) :
        LET r == [req[s] EXCEPT !.status = status]
        IN  IF status = None \/ r.user = None
            THEN req' = [req EXCEPT ![s] = [r EXCEPT !.pc = "edit_links"]]
            ELSE /\ ~RowLockedByOther(s, r.cid)
                 /\ req' = [req EXCEPT ![s] =
                        [UpdateRow(r, [status |-> The(status)])
                            EXCEPT !.pc = "edit_links"]]
    /\ UNCHANGED <<db, links, cache, blobs, workload>>

\* The status of the request: the permission check and the UPDATE of status
EditStatus(s) ==
    /\ req[s].pc = "edit_status"
    /\ \E status \in Optional(W.statuses) :
        LET r == [req[s] EXCEPT !.status = status]
        IN  IF status = None \/ r.user = None
            THEN req' = [req EXCEPT ![s] = [r EXCEPT !.pc = "edit_links"]]
            ELSE IF ~(\/ is_mod(The(r.user))
                      \/ /\ is_approved(The(r.item).row.status)
                         /\ can_be_requested(The(status)))
            THEN req' = [req EXCEPT ![s] = Abort(r, "CustomAuthentication")]
            ELSE /\ ~RowLockedByOther(s, r.cid)
                 /\ req' = [req EXCEPT ![s] =
                        [UpdateRow(r, [status |-> The(status)])
                            EXCEPT !.pc = "edit_links"]]
    /\ UNCHANGED <<db, links, cache, blobs, workload>>


\* The DELETE of the existing links executed on the pool instead of the
\* transaction: it commits on its own.
EditLinksOnPool(s) ==
    /\ req[s].pc = "edit_links"
    /\ \E new_projects \in Optional({l \in ListsFor(s) : Len(l) <= EditProjectsMax}) :
        LET r == [req[s] EXCEPT !.projects = new_projects]
        IN  IF new_projects = None
            THEN /\ req' = [req EXCEPT ![s] = [r EXCEPT !.pc = "edit_clear"]]
                 /\ UNCHANGED links
            ELSE /\ ~LinkLockedByOther(s, r.cid, LinkedProjects(r.cid))
                 /\ links' = {k \in links : k[1] # r.cid}
                 /\ req' = [req EXCEPT ![s] =
                        [r EXCEPT
                            !.todo = The(new_projects),
                            !.pc = IF The(new_projects) = <<>> THEN "edit_clear"
                                   ELSE "edit_insert"]]
    /\ UNCHANGED <<db, cache, blobs, workload>>

\* An absent new_projects taken for an empty list: the DELETE is executed.
EditLinksAlways(s) ==
    /\ req[s].pc = "edit_links"
    /\ \E new_projects \in Optional({l \in ListsFor(s) : Len(l) <= EditProjectsMax}) :
        LET r == [req[s] EXCEPT !.projects = new_projects]
            ids == IF new_projects = None THEN <<>> ELSE The(new_projects)
        IN  /\ ~LinkLockedByOther(s, r.cid, LinkedProjects(r.cid))
            /\ req' = [req EXCEPT ![s] =
                   [DeleteLinks(r) EXCEPT
                       !.todo = ids,
                       !.pc = IF ids = <<>> THEN "edit_clear" ELSE "edit_insert"]]
    /\ UNCHANGED <<db, links, cache, blobs, workload>>

\* new_projects: the DELETE of the existing links
EditLinks(s) ==
    /\ req[s].pc = "edit_links"
    /\ \E new_projects \in Optional({l \in ListsFor(s) : Len(l) <= EditProjectsMax}) :
        LET r == [req[s] EXCEPT !.projects = new_projects]
        IN  IF new_projects = None
            THEN req' = [req EXCEPT ![s] = [r EXCEPT !.pc = "edit_clear"]]
            ELSE /\ ~LinkLockedByOther(s, r.cid, LinkedProjects(r.cid))
                 /\ req' = [req EXCEPT ![s] =
                        [DeleteLinks(r) EXCEPT
                            !.todo = The(new_projects),
                            !.pc = IF The(new_projects) = <<>> THEN "edit_clear"
                                   ELSE "edit_insert"]]
    /\ UNCHANGED <<db, links, cache, blobs, workload>>

\* One turn of the loop over new_project_ids: Project::get and the INSERT
EditInsert(s) ==
    /\ req[s].pc = "edit_insert"
    /\ LET r == req[s]
           project_id == Head(r.todo)
           project == Project_get(project_id)
       IN  IF project = None
           THEN req' = [req EXCEPT ![s] = Abort(r, "InvalidInput")]
           ELSE IF r.cid \notin DOMAIN db
           THEN /\ ~RowRemovedByOther(s, r.cid)
                /\ req' = [req EXCEPT ![s] = Abort(r, "ServerError")]
           ELSE /\ ~RowRemovedByOther(s, r.cid)
                /\ ~LinkInsertedByOther(s, r.cid, The(project))
                /\ ~LinkLockedByOther(s, r.cid, {The(project)})
                /\ req' = [req EXCEPT ![s] =
                       [InsertLink(r, The(project)) EXCEPT
                           !.todo = Tail(r.todo),
                           !.pc = IF Tail(r.todo) = <<>> THEN "edit_clear"
                                  ELSE "edit_insert"]]
    /\ UNCHANGED <<db, links, cache, blobs, workload>>

EditClearCache(s) ==
    /\ req[s].pc = "edit_clear"
    /\ cache' = CacheWithout(req[s].cid)
    /\ req' = [req EXCEPT ![s].pc = "edit_commit"]
    /\ UNCHANGED <<db, links, blobs, workload>>

EditCommit(s) ==
    /\ req[s].pc = "edit_commit"
    /\ db' = DbAfter(req[s])
    /\ links' = LinksAfter(req[s])
    /\ req' = [req EXCEPT ![s] = Committed_(req[s], "NoContent")]
    /\ UNCHANGED <<cache, blobs, workload>>


----------------------------------------------------------------------------
(* collection_icon_edit *)

\* format!("{}/{}", cdn_url, file_name), and icon.split("{cdn_url}/").nth(1)
IconUrl(file_name) == <<"cdn_url", file_name>>
IconPath(icon) == IF Len(icon) >= 2 THEN Some(icon[2]) ELSE None

\* color.map(|x| x as i32)
as_i32(x) == IF x > 2147483647 THEN x - 2147483647 - 2147483647 - 2 ELSE x

\* read_from_payload(payload, cap, ..): the bytes, unless they exceed cap.
read_from_payload(payload, cap) == IF payload.size > cap THEN None ELSE Some(payload)

\* get_image_content_type, get_user_from_headers(..).ok(), Collection::get,
\* the authorization check
SetIconBegin(s) ==
    /\ req[s].pc = "idle"
    /\ \E ext \in W.exts, cred \in W.creds, c \in CollIds :
        LET user_option == get_user_from_headers(cred)
            r0 == [IdleReq EXCEPT !.kind = "set_icon", !.cred = cred, !.cid = c,
                                  !.ext = ext]
            result == Collection_get(c)
            r1 == [r0 EXCEPT !.user = user_option, !.repo_calls = 1, !.item = result,
                             !.start = Committed(c)]
        IN  IF get_image_content_type(ext) = None
            THEN /\ req' = [req EXCEPT ![s] = Done(r0, "InvalidInput")]
                 /\ UNCHANGED cache
            ELSE /\ cache' = CacheAfterGet(c)
                 /\ req' = [req EXCEPT ![s] =
                        IF result = None THEN Done(r1, "InvalidInput")
                        ELSE IF ~is_authorized_collection(The(result), user_option)
                        THEN Done(r1, "Unauthorized")
                        ELSE [r1 EXCEPT !.pc = "icon_delete_old"]]
    /\ UNCHANGED <<db, links, blobs, workload>>

\* file_host.delete_file_version of the icon the collection had; the call
\* succeeds or fails.
DeleteOldIcon(s, next) ==
    LET r == req[s]
        icon_url == The(r.item).row.icon_url
        name == IF icon_url = None THEN None ELSE IconPath(The(icon_url))
    IN  IF name = None
        THEN /\ req' = [req EXCEPT ![s].pc = next]
             /\ UNCHANGED blobs
        ELSE \/ /\ blobs' = blobs \ name
                /\ req' = [req EXCEPT ![s].pc = next,
                                      ![s].asset_calls = r.asset_calls + 1]
             \/ /\ req' = [req EXCEPT ![s] =
                       Abort([r EXCEPT !.asset_calls = r.asset_calls + 1,
                                       !.result = Some("delete_failed")], "ServerError")]
                /\ UNCHANGED blobs

SetIconDeleteOld(s) ==
    /\ req[s].pc = "icon_delete_old"
    /\ DeleteOldIcon(s, "icon_read")
    /\ UNCHANGED <<db, links, cache, workload>>

\* read_from_payload, get_color_from_img, the digest and the file's name
SetIconRead(s) ==
    /\ req[s].pc = "icon_read"
    /\ \E payload \in W.payloads :
        LET r == [req[s] EXCEPT !.payload = Some(payload)]
            bytes == read_from_payload(payload, IconSizeLimit)
            color == get_color_from_img(payload)
            hash == hexdigest(payload)
        IN  req' = [req EXCEPT ![s] =
               IF bytes = None THEN Abort(r, "InvalidInput")
               ELSE IF ~color.ok THEN Abort(r, "InvalidInput")
               ELSE [r EXCEPT !.pc = "icon_upload",
                              !.icon = Some([name |-> <<"data", r.cid, hash, r.ext>>,
                                             color |-> color.color])]]
    /\ UNCHANGED <<db, links, cache, blobs, workload>>

\* file_host.upload_file; the call succeeds or fails.
SetIconUpload(s) ==
    /\ req[s].pc = "icon_upload"
    /\ LET r == [req[s] EXCEPT !.asset_calls = req[s].asset_calls + 1]
       IN  \/ /\ blobs' = blobs \cup {The(r.icon).name}
              /\ req' = [req EXCEPT ![s] = [r EXCEPT !.pc = "icon_update"]]
           \/ /\ req' = [req EXCEPT ![s] = Abort(r, "ServerError")]
              /\ UNCHANGED blobs
    /\ UNCHANGED <<db, links, cache, workload>>

\* pool.begin() and the UPDATE of icon_url and color
SetIconUpdate(s) ==
    /\ req[s].pc = "icon_update"
    /\ ~RowLockedByOther(s, req[s].cid)
    /\ LET r == [req[s] EXCEPT !.tx = OpenTx]
           icon == The(r.icon)
       IN  req' = [req EXCEPT ![s] =
              [UpdateRow(r, [icon_url |-> Some(IconUrl(icon.name)),
                             color |-> {as_i32(x) : x \in icon.color}])
                  EXCEPT !.pc = "icon_clear"]]
    /\ UNCHANGED <<db, links, cache, blobs, workload>>

SetIconClearCache(s) ==
    /\ req[s].pc = "icon_clear"
    /\ cache' = CacheWithout(req[s].cid)
    /\ req' = [req EXCEPT ![s].pc = "icon_commit"]
    /\ UNCHANGED <<db, links, blobs, workload>>

SetIconCommit(s) ==
    /\ req[s].pc = "icon_commit"
    /\ db' = DbAfter(req[s])
    /\ links' = LinksAfter(req[s])
    /\ req' = [req EXCEPT ![s] = Committed_(req[s], "NoContent")]
    /\ UNCHANGED <<cache, blobs, workload>>

----------------------------------------------------------------------------
(* delete_collection_icon *)

\* get_user_from_headers(..).ok(), Collection::get, the authorization check
ClearIconBegin(s) ==
    /\ req[s].pc = "idle"
    /\ \E cred \in W.creds, c \in CollIds :
        LET user_option == get_user_from_headers(cred)
            result == Collection_get(c)
            r1 == [IdleReq EXCEPT !.kind = "clear_icon", !.cred = cred, !.cid = c,
                                  !.user = user_option, !.repo_calls = 1,
                                  !.item = result, !.start = Committed(c)]
        IN  /\ cache' = CacheAfterGet(c)
            /\ req' = [req EXCEPT ![s] =
                   IF result = None THEN Done(r1, "InvalidInput")
                   ELSE IF ~is_authorized_collection(The(result), user_option)
                   THEN Done(r1, "Unauthorized")
                   ELSE [r1 EXCEPT !.pc = "unicon_delete_old"]]
    /\ UNCHANGED <<db, links, blobs, workload>>

ClearIconDeleteOld(s) ==
    /\ req[s].pc = "unicon_delete_old"
    /\ DeleteOldIcon(s, "unicon_update")
    /\ UNCHANGED <<db, links, cache, workload>>

\* pool.begin() and the UPDATE clearing icon_url and color
ClearIconUpdate(s) ==
    /\ req[s].pc = "unicon_update"
    /\ ~RowLockedByOther(s, req[s].cid)
    /\ LET r == [req[s] EXCEPT !.tx = OpenTx]
       IN  req' = [req EXCEPT ![s] =
              [UpdateRow(r, [icon_url |-> None, color |-> None])
                  EXCEPT !.pc = "unicon_clear"]]
    /\ UNCHANGED <<db, links, cache, blobs, workload>>

ClearIconClearCache(s) ==
    /\ req[s].pc = "unicon_clear"
    /\ cache' = CacheWithout(req[s].cid)
    /\ req' = [req EXCEPT ![s].pc = "unicon_commit"]
    /\ UNCHANGED <<db, links, blobs, workload>>

ClearIconCommit(s) ==
    /\ req[s].pc = "unicon_commit"
    /\ db' = DbAfter(req[s])
    /\ links' = LinksAfter(req[s])
    /\ req' = [req EXCEPT ![s] = Committed_(req[s], "NoContent")]
    /\ UNCHANGED <<cache, blobs, workload>>

----------------------------------------------------------------------------
(* collection_delete *)

\* get_user_from_headers(..).ok(), Collection::get, the authorization check,
\* pool.begin()
DeleteBegin(s) ==
    /\ req[s].pc = "idle"
    /\ \E cred \in W.creds, c \in CollIds :
        LET user_option == get_user_from_headers(cred)
            collection == Collection_get(c)
            r1 == [IdleReq EXCEPT !.kind = "delete", !.cred = cred, !.cid = c,
                                  !.user = user_option, !.repo_calls = 1,
                                  !.item = collection, !.start = Committed(c)]
        IN  /\ cache' = CacheAfterGet(c)
            /\ req' = [req EXCEPT ![s] =
                   IF collection = None THEN Done(r1, "InvalidInput")
                   ELSE IF ~is_authorized_collection(The(collection), user_option)
                   THEN Done(r1, "Unauthorized")
                   ELSE [r1 EXCEPT !.pc = "delete_remove", !.tx = OpenTx]]
    /\ UNCHANGED <<db, links, blobs, workload>>

\* Collection::remove: get the collection; if there is one, delete its links
\* and its row and clear its cache entry.
DeleteRemove(s) ==
    /\ req[s].pc = "delete_remove"
    /\ LET r == req[s]
           collection == Collection_get(r.cid)
       IN  IF collection = None
           THEN /\ req' = [req EXCEPT ![s] = [r EXCEPT !.result = None,
                                                       !.pc = "delete_clear"]]
                /\ UNCHANGED cache
           ELSE /\ ~LinkLockedByOther(s, r.cid, LinkedProjects(r.cid))
                /\ ~RowLockedByOther(s, r.cid)
                /\ req' = [req EXCEPT ![s] =
                       [DeleteLinks(r) EXCEPT
                           !.tx.removed = r.cid \in DOMAIN db,
                           !.tx.locked = r.cid \in DOMAIN db,
                           !.result = Some("removed"),
                           !.pc = "delete_clear"]]
                /\ cache' = CacheWithout(r.cid)
    /\ UNCHANGED <<db, links, blobs, workload>>

DeleteClearCache(s) ==
    /\ req[s].pc = "delete_clear"
    /\ cache' = CacheWithout(req[s].cid)
    /\ req' = [req EXCEPT ![s].pc = "delete_commit"]
    /\ UNCHANGED <<db, links, blobs, workload>>


\* The response sent without transaction.commit(): the transaction is dropped.
DeleteCommitSkipped(s) ==
    /\ req[s].pc = "delete_commit"
    /\ req' = [req EXCEPT ![s] =
           Abort(req[s], IF req[s].result # None THEN "NoContent" ELSE "NotFound")]
    /\ UNCHANGED <<db, links, cache, blobs, workload>>

\* transaction.commit() and the response
DeleteCommit(s) ==
    /\ req[s].pc = "delete_commit"
    /\ db' = DbAfter(req[s])
    /\ links' = LinksAfter(req[s])
    /\ req' = [req EXCEPT ![s] =
           Committed_(req[s], IF req[s].result # None THEN "NoContent" ELSE "NotFound")]
    /\ UNCHANGED <<cache, blobs, workload>>

----------------------------------------------------------------------------
(* The system *)

\* The store, the cache and the file host are empty and no request is in
\* flight; `slots` workers take requests whose inputs range over profile w.
InitWith(slots, w) ==
    /\ db = [c \in {} |-> c]
    /\ links = {}
    /\ cache = [c \in {} |-> c]
    /\ blobs = {}
    /\ req = [s \in slots |-> IdleReq]
    /\ workload = w

\* One request at a time: create, get, list, edit and delete.
Init == InitWith({"r1"}, "all")

Next ==
    \/ \E s \in Slots : CreateBegin(s)
    \/ \E s \in Slots : CreateCommit(s)
    \/ \E s \in Slots : CollectionGet(s)
    \/ \E s \in Slots : CollectionsGet(s)
    \/ \E s \in Slots : EditBegin(s)
    \/ \E s \in Slots : EditFields(s)
    \/ \E s \in Slots : EditStatus(s)
    \/ \E s \in Slots : EditLinks(s)
    \/ \E s \in Slots : EditInsert(s)
    \/ \E s \in Slots : EditClearCache(s)
    \/ \E s \in Slots : EditCommit(s)
    \/ \E s \in Slots : DeleteBegin(s)
    \/ \E s \in Slots : DeleteRemove(s)
    \/ \E s \in Slots : DeleteClearCache(s)
    \/ \E s \in Slots : DeleteCommit(s)
    \/ \E s \in Slots : InfraFail(s)
    \/ \E s \in Slots : Finish(s)

Spec == Init /\ [][Next]_vars

\* One request at a time: create, get, set_icon and delete_icon.
InitIcon == InitWith({"r1"}, "icons")

NextIcon ==
    \/ \E s \in Slots : CreateBegin(s)
    \/ \E s \in Slots : CreateCommit(s)
    \/ \E s \in Slots : CollectionGet(s)
    \/ \E s \in Slots : SetIconBegin(s)
    \/ \E s \in Slots : SetIconDeleteOld(s)
    \/ \E s \in Slots : SetIconRead(s)
    \/ \E s \in Slots : SetIconUpload(s)
    \/ \E s \in Slots : SetIconUpdate(s)
    \/ \E s \in Slots : SetIconClearCache(s)
    \/ \E s \in Slots : SetIconCommit(s)
    \/ \E s \in Slots : ClearIconBegin(s)
    \/ \E s \in Slots : ClearIconDeleteOld(s)
    \/ \E s \in Slots : ClearIconUpdate(s)
    \/ \E s \in Slots : ClearIconClearCache(s)
    \/ \E s \in Slots : ClearIconCommit(s)
    \/ \E s \in Slots : InfraFail(s)
    \/ \E s \in Slots : Finish(s)

SpecIcon == InitIcon /\ [][NextIcon]_vars

\* Two requests at a time: create, get and edit, sent by the owner.
InitTwo == InitWith({"r1", "r2"}, "two")

NextTwo ==
    \/ \E s \in Slots : CreateBegin(s)
    \/ \E s \in Slots : CreateCommit(s)
    \/ \E s \in Slots : CollectionGet(s)
    \/ \E s \in Slots : EditBegin(s)
    \/ \E s \in Slots : EditFields(s)
    \/ \E s \in Slots : EditStatus(s)
    \/ \E s \in Slots : EditLinks(s)
    \/ \E s \in Slots : EditInsert(s)
    \/ \E s \in Slots : EditClearCache(s)
    \/ \E s \in Slots : EditCommit(s)
    \/ \E s \in Slots : Finish(s)

SpecTwo == InitTwo /\ [][NextTwo]_vars

\* Two requests at a time: create and edit with the longest lists.
InitCap == InitWith({"r1", "r2"}, "cap")

NextCap ==
    \/ \E s \in Slots : CreateBegin(s)
    \/ \E s \in Slots : CreateCommit(s)
    \/ \E s \in Slots : EditBegin(s)
    \/ \E s \in Slots : EditFields(s)
    \/ \E s \in Slots : EditStatus(s)
    \/ \E s \in Slots : EditLinks(s)
    \/ \E s \in Slots : EditInsert(s)
    \/ \E s \in Slots : EditClearCache(s)
    \/ \E s \in Slots : EditCommit(s)
    \/ \E s \in Slots : Finish(s)

SpecCap == InitCap /\ [][NextCap]_vars

\* One request at a time on two collections: create, edit, set_icon and
\* delete_icon.
InitFrame == InitWith({"r1"}, "frame")

NextFrame ==
    \/ \E s \in Slots : CreateBegin(s)
    \/ \E s \in Slots : CreateCommit(s)
    \/ \E s \in Slots : EditBegin(s)
    \/ \E s \in Slots : EditFields(s)
    \/ \E s \in Slots : EditStatus(s)
    \/ \E s \in Slots : EditLinks(s)
    \/ \E s \in Slots : EditInsert(s)
    \/ \E s \in Slots : EditClearCache(s)
    \/ \E s \in Slots : EditCommit(s)
    \/ \E s \in Slots : SetIconBegin(s)
    \/ \E s \in Slots : SetIconDeleteOld(s)
    \/ \E s \in Slots : SetIconRead(s)
    \/ \E s \in Slots : SetIconUpload(s)
    \/ \E s \in Slots : SetIconUpdate(s)
    \/ \E s \in Slots : SetIconClearCache(s)
    \/ \E s \in Slots : SetIconCommit(s)
    \/ \E s \in Slots : ClearIconBegin(s)
    \/ \E s \in Slots : ClearIconDeleteOld(s)
    \/ \E s \in Slots : ClearIconUpdate(s)
    \/ \E s \in Slots : ClearIconClearCache(s)
    \/ \E s \in Slots : ClearIconCommit(s)
    \/ \E s \in Slots : Finish(s)

SpecFrame == InitFrame /\ [][NextFrame]_vars


----------------------------------------------------------------------------
(* Properties.  A request that has ended stays in its slot, with what it   *)
(* read (item), what the store held when it began (start), its             *)
(* transaction and its outcome, until Finish.                              *)

Mutations == {"edit", "set_icon", "clear_icon", "delete"}
Ended(s, kind) == req[s].pc = "done" /\ req[s].kind = kind

\* The caller is the owner of the collection the store held, or a moderator.
OwnerOrMod(r) ==
    \E u \in r.user : is_mod(u) \/ (r.start # None /\ u = The(r.start).row.user_id)

\* C2: every mutation of an existing collection requires the actor to be its
\* owner or a moderator: a request of edit, set_icon, clear_icon or delete
\* that changed the collection's row or links was sent by the owner or a
\* moderator.
C2_MutationNeedsOwnerOrMod ==
    \A s \in Slots :
        (/\ req[s].pc = "done"
         /\ req[s].kind \in Mutations
         /\ req[s].start # None
         /\ Committed(req[s].cid) # req[s].start)
        => OwnerOrMod(req[s])

\* C3: the stored status changes through edit only when the actor is a
\* moderator, or the status read at the start of the request is approved and
\* the requested one can be requested, and then it becomes the requested
\* status; a moderator's edit is never refused for its status, and when it
\* commits the stored status is the requested one.
C3_StatusFollowsPolicy ==
    /\ [](\A s \in Slots :
            (Ended(s, "edit") /\ req[s].user = Some("mod"))
            => req[s].outcome # "CustomAuthentication")
    /\ [][/\ \A c \in DOMAIN db \cap DOMAIN db' :
               db'[c].status # db[c].status =>
                 \E s \in Slots :
                    /\ req[s].kind = "edit" /\ req[s].cid = c
                    /\ req[s].pc = "edit_commit" /\ req'[s].pc = "done"
                    /\ req[s].status # None
                    /\ \E u \in req[s].user :
                          \/ is_mod(u)
                          \/ /\ is_approved(The(req[s].item).row.status)
                             /\ can_be_requested(The(req[s].status))
                    /\ db'[c].status = The(req[s].status)
          /\ \A s \in Slots :
               (/\ req[s].kind = "edit" /\ req[s].pc = "edit_commit"
                /\ req'[s].outcome = "NoContent"
                /\ req[s].user = Some("mod") /\ req[s].status # None
                /\ req[s].cid \in DOMAIN db')
               => db'[req[s].cid].status = The(req[s].status)]_vars

\* A moderator moved a rejected collection to Approved, a status that cannot
\* be requested, from one that is not approved.
C3_Witness ==
    \E s \in Slots :
        /\ Ended(s, "edit") /\ req[s].outcome = "NoContent"
        /\ req[s].user = Some("mod")
        /\ The(req[s].start).row.status = "Rejected"
        /\ req[s].cid \in DOMAIN db /\ db[req[s].cid].status = "Approved"

\* C4: an edit that requests a status it may not set fails with a permission
\* error, for every caller that passed the visibility check, an anonymous
\* one included: an edit that reports success and carried a status was
\* permitted to set it and has set it.
C4_StatusRequestNeverDropped ==
    \A s \in Slots :
        (Ended(s, "edit") /\ req[s].outcome = "NoContent" /\ req[s].status # None)
        => /\ \E u \in req[s].user :
                 \/ is_mod(u)
                 \/ /\ is_approved(The(req[s].item).row.status)
                    /\ can_be_requested(The(req[s].status))
           /\ req[s].cid \in DOMAIN db
           /\ db[req[s].cid].status = The(req[s].status)

\* C5: edit is atomic: after an edit that failed the status permission
\* check, the committed title, description, status and links of the
\* collection are those before the request, whatever UPDATE its transaction
\* had executed.
C5_FailedStatusCheckAppliesNothing ==
    \A s \in Slots :
        (Ended(s, "edit") /\ req[s].outcome = "CustomAuthentication")
        => /\ Committed(req[s].cid) = req[s].start
           /\ req[s].tx.state = "rolledback"

\* The status check failed after the transaction had updated the title and
\* the description to new values.
C5_Witness ==
    \E s \in Slots :
        /\ Ended(s, "edit") /\ req[s].outcome = "CustomAuthentication"
        /\ req[s].title # None /\ req[s].description # None
        /\ req[s].tx.row # None
        /\ The(req[s].tx.row).title # The(req[s].start).row.title
        /\ The(req[s].tx.row).description # The(req[s].start).row.description

\* The request's list holds an id that resolves to no project.
HasUnknownProject(r) ==
    \E l \in r.projects : \E i \in DOMAIN l : Project_get(l[i]) = None

\* C6: an edit whose new_projects holds an id of no existing project fails
\* with InvalidInput (unless the database failed first) and applies nothing:
\* the committed links, and the row, are those before the request, wherever
\* the unknown id stands in the list.
C6_UnknownProjectAppliesNothing ==
    \A s \in Slots :
        (Ended(s, "edit") /\ HasUnknownProject(req[s]))
        => /\ req[s].outcome \in {"InvalidInput", "ServerError"}
           /\ Committed(req[s].cid) = req[s].start
           /\ req[s].tx.state = "rolledback"

\* The lookup failed on the second id, after the transaction had deleted the
\* existing links and inserted the first id.
C6_Witness ==
    \E s \in Slots :
        /\ Ended(s, "edit") /\ req[s].outcome = "InvalidInput"
        /\ HasUnknownProject(req[s])
        /\ req[s].tx.del # {} /\ req[s].tx.ins # {}
        /\ req[s].tx.ins \cap req[s].tx.del = {}

\* C7: a request of edit, set_icon, clear_icon or delete whose credential is
\* missing or lacks the required scope fails without Collection::get having
\* been called.
C7_ScopeFailureBeforeRepository ==
    \A s \in Slots :
        (/\ req[s].pc = "done" /\ req[s].kind \in Mutations
         /\ get_user_from_headers(req[s].cred) = None)
        => /\ req[s].outcome # "NoContent"
           /\ req[s].repo_calls = 0

\* The caller fails the visibility check of collection data: the collection
\* is hidden and the caller is neither its owner nor a moderator.
FailsVisibility(data, user_option) ==
    /\ data.row.status \in {"Private", "Rejected"}
    /\ \A u \in user_option : ~is_mod(u) /\ u # data.row.user_id

\* What collection_get answers for an id of no collection.
UnknownIdResponse == GetResponse(None, None)

\* C8: reads do not leak existence: collection_get answers a caller who fails
\* the visibility check of an existing collection exactly as it answers for
\* an unknown id, and collections_get leaves such a collection out as it
\* leaves out unknown ids.
C8_HiddenReadsLikeUnknown ==
    \A s \in Slots :
        /\ (Ended(s, "get") /\ \E data \in req[s].item : FailsVisibility(data, req[s].user))
           => /\ req[s].outcome = UnknownIdResponse.outcome
              /\ req[s].body = UnknownIdResponse.body
        /\ (Ended(s, "get") /\ req[s].item = None)
           => /\ req[s].outcome = UnknownIdResponse.outcome
              /\ req[s].body = UnknownIdResponse.body
        /\ Ended(s, "list")
           => /\ req[s].outcome = "Ok"
              /\ \A data \in req[s].item :
                    FailsVisibility(data, req[s].user) => data \notin req[s].body

\* An authenticated user who is neither owner nor moderator has read an
\* existing private collection.
C8_Witness ==
    \E s \in Slots :
        /\ Ended(s, "get") /\ req[s].user = Some("bob")
        /\ req[s].cid \in DOMAIN db /\ db[req[s].cid].status = "Private"
        /\ req[s].item # None /\ FailsVisibility(The(req[s].item), req[s].user)
        /\ req[s].outcome = "NotFound"

\* C10: after a delete that returned success, with no other request running,
\* the collection has no row and no links, and collection_get answers
\* not-found to every caller: no cached copy is served.
C10_DeleteCascades ==
    \A s \in Slots :
        (Ended(s, "delete") /\ req[s].outcome = "NoContent")
        => /\ req[s].cid \notin DOMAIN db
           /\ LinkedProjects(req[s].cid) = {}
           /\ \A cred \in Creds :
                 GetResponse(Collection_get(req[s].cid),
                             get_user_from_headers(cred)).outcome = "NotFound"

\* The owner deleted a collection that had links.
C10_Witness ==
    \E s \in Slots :
        /\ Ended(s, "delete") /\ req[s].outcome = "NoContent"
        /\ req[s].start # None /\ The(req[s].start).projects # {}
        /\ req[s].user = Some(The(req[s].start).row.user_id)

\* A set_icon request of the owner or a moderator, with an allowed extension,
\* read a payload of more than IconSizeLimit bytes.
OversizeIcon(r) ==
    /\ r.kind = "set_icon" /\ r.pc = "done"
    /\ OwnerOrMod(r)
    /\ get_image_content_type(r.ext) # None
    /\ \E payload \in r.payload : payload.size > IconSizeLimit

\* C1: set_icon with an allowed extension and a payload of more than 262144
\* bytes fails with a validation error and makes no call to the file host,
\* whether or not the collection has an icon.
C1_OversizeIconTouchesNoAsset ==
    \A s \in Slots :
        OversizeIcon(req[s])
        => /\ req[s].outcome = "InvalidInput"
           /\ req[s].asset_calls = 0

\* C9: reads are cache-coherent after writes: whenever no request is in
\* flight, a cache entry of a collection equals the committed row and links
\* of that collection.
C9_CacheCoherentAtRest ==
    (\A s \in Slots : req[s].pc \in {"idle", "done"})
    => \A c \in DOMAIN cache : Some(cache[c]) = Committed(c)

----------------------------------------------------------------------------
(* Membership *)

\* The distinct ids of a list.
Distinct(l) == {l[i] : i \in DOMAIN l}

\* The request carried new_projects and every id of it resolves to a project.
ReplacesWithExisting(r) ==
    /\ r.kind = "edit" /\ r.projects # None
    /\ \A p \in Distinct(The(r.projects)) : Project_get(p) # None

\* C11: replace-all membership is idempotent: an edit that carries a list X
\* of existing project ids, duplicates included, sent by a caller who passed
\* the authorization check, is not refused; when it has committed the links
\* of the collection are the distinct ids of X, whatever they were before;
\* and the commit of the same list again leaves the links as they are.
C11_ReplaceAllIdempotent ==
    /\ [](\A s \in Slots :
            (Ended(s, "edit") /\ ReplacesWithExisting(req[s]))
            => /\ req[s].outcome \in {"NoContent", "ServerError"}
               /\ req[s].outcome = "NoContent"
                  => LinkedProjects(req[s].cid) = Distinct(The(req[s].projects)))
    /\ [][\A s \in Slots :
            (/\ req[s].pc = "edit_commit" /\ req'[s].pc = "done"
             /\ ReplacesWithExisting(req[s])
             /\ LinkedProjects(req[s].cid) = Distinct(The(req[s].projects)))
            => links' = links]_vars

\* The list <<p1, p1>> was committed on a collection whose links were {p1}
\* already: the second of two equal calls.
C11_Witness ==
    \E s \in Slots :
        /\ Ended(s, "edit") /\ req[s].outcome = "NoContent"
        /\ req[s].projects = Some(<<"p1", "p1">>)
        /\ req[s].start # None /\ The(req[s].start).projects = {"p1"}
        /\ LinkedProjects(req[s].cid) = {"p1"}

\* What collection_get answers the caller of request r for r's collection.
GetBy(r) == GetResponse(Collection_get(r.cid), r.user)

\* C12: create/get round trip: after a create that succeeded, collection_get
\* of the returned id by the creator answers the collection of create's
\* response: the title and the description of the request, status Listed,
\* no icon_url and no color, and the projects of the response, which are the
\* existing projects among the request's.
C12_CreateGetRoundTrip ==
    \A s \in Slots :
        (Ended(s, "create") /\ req[s].outcome = "Ok")
        => /\ GetBy(req[s]).outcome = "Ok"
           /\ GetBy(req[s]).body = req[s].body
           /\ \A data \in GetBy(req[s]).body :
                /\ data.id = req[s].cid
                /\ data.row.title = The(req[s].title)
                /\ data.row.description = The(req[s].description)
                /\ data.row.status = "Listed"
                /\ data.row.icon_url = None /\ data.row.color = None
                /\ data.row.user_id = The(req[s].user)
                /\ data.projects = Distinct(The(req[s].projects)) \cap ExistingProjects

\* A collection was created with the list <<p1, p2>> and its creator reads it.
C12_Witness ==
    \E s \in Slots :
        /\ Ended(s, "create") /\ req[s].outcome = "Ok"
        /\ req[s].projects = Some(<<"p1", "p2">>)
        /\ GetBy(req[s]).outcome = "Ok"
        /\ \E data \in GetBy(req[s]).body : data.projects = {"p1", "p2"}

----------------------------------------------------------------------------
(* Icons *)

\* Request r read a collection that had an icon and has called
\* file_host.delete_file_version on it.
OldIconDeleteIssued(r) ==
    /\ r.kind \in {"set_icon", "clear_icon"}
    /\ r.pc \notin {"idle", "icon_delete_old", "unicon_delete_old"}
    /\ \E data \in r.item : data.row.icon_url # None
    /\ r.asset_calls >= 1

\* C13: in set_icon on a collection that has an icon, the old blob is deleted
\* only after the new icon_url and color are durable: whenever the delete
\* has been called, the request's transaction has committed.
C13_OldIconDeletedAfterCommit ==
    \A s \in Slots :
        (req[s].kind = "set_icon" /\ OwnerOrMod(req[s]) /\ OldIconDeleteIssued(req[s]))
        => req[s].tx.state = "committed"

\* C14: a failure of the deletion of the old blob is swallowed: a set_icon
\* or clear_icon request whose call of file_host.delete_file_version failed
\* still commits its update of icon_url and color and answers NoContent.
C14_DeleteFailureSwallowed ==
    \A s \in Slots :
        (/\ req[s].pc = "done" /\ req[s].kind \in {"set_icon", "clear_icon"}
         /\ OwnerOrMod(req[s])
         /\ req[s].result = Some("delete_failed"))
        => /\ req[s].outcome = "NoContent"
           /\ req[s].tx.state = "committed"

\* C15: in every committed state a collection's icon_url and color are both
\* null or both populated.
C15_IconAndColorTogether ==
    \A c \in DOMAIN db : (db[c].icon_url = None) <=> (db[c].color = None)

----------------------------------------------------------------------------
(* Field bounds *)

\* C16: in every committed state a collection's description has between 3
\* and 255 characters, after any sequence of create and edit.
C16_DescriptionWithinBounds ==
    \A c \in DOMAIN db :
        db[c].description >= DescMin /\ db[c].description <= CreateDescMax

\* C17: membership is bounded: the response of a create that succeeded
\* carries at most 32 projects, its links, and in every committed state a
\* collection has at most 64 links, edits of the same collection running
\* concurrently included.
C17_MembershipBounded ==
    /\ \A s \in Slots :
          (Ended(s, "create") /\ req[s].outcome = "Ok")
          => \A data \in req[s].body : Cardinality(data.projects) <= CreateProjectsMax
    /\ \A c \in DOMAIN db : Cardinality(LinkedProjects(c)) <= EditProjectsMax

----------------------------------------------------------------------------
(* Icon references *)

\* C18: icon reference integrity: whenever no request is in flight, the
\* committed icon_url of a collection, if there is one, names a blob the
\* file host holds.
C18_IconUrlNamesStoredBlob ==
    (\A s \in Slots : req[s].pc \in {"idle", "done"})
    => \A c \in DOMAIN db :
          \A icon \in db[c].icon_url : \A name \in IconPath(icon) : name \in blobs

----------------------------------------------------------------------------
(* Concurrent edits *)

\* Request r is an edit that replaced the links with existing ids and
\* committed.
CommittedReplace(r) ==
    /\ r.kind = "edit" /\ r.pc = "done" /\ r.outcome = "NoContent"
    /\ ReplacesWithExisting(r)

\* C19: concurrent replace-all edits serialize: when two edits of the same
\* collection with lists X and Y of existing ids have both committed, and
\* nothing else has run since, the committed links are the distinct ids of X
\* or the distinct ids of Y, never a mixture.
C19_ConcurrentReplaceSerializes ==
    \A s \in Slots : \A t \in Others(s) :
        (/\ CommittedReplace(req[s]) /\ CommittedReplace(req[t])
         /\ req[s].cid = req[t].cid)
        => \/ LinkedProjects(req[s].cid) = Distinct(The(req[s].projects))
           \/ LinkedProjects(req[s].cid) = Distinct(The(req[t].projects))

----------------------------------------------------------------------------
(* Frame *)

\* The row and the links of collection x are the same before and after a step.
Untouched(x) ==
    /\ x \in DOMAIN db'
    /\ db'[x] = db[x]
    /\ {k \in links' : k[1] = x} = {k \in links : k[1] = x}

\* Request r has committed and answered NoContent on a collection the store
\* held when it began and holds now.
Succeeded(r, kinds) ==
    /\ r.pc = "done" /\ r.kind \in kinds /\ r.outcome = "NoContent"
    /\ r.start # None /\ r.cid \in DOMAIN db

\* Field f of r's collection is as it was when r began.
Kept(r, f) == db[r.cid][f] = The(r.start).row[f]

\* C20: frame of the icon and edit operations: a set_icon or clear_icon that
\* succeeded left the owner, title, description, status and links of its
\* collection as they were; an edit that succeeded left the owner, icon_url
\* and color as they were, each of title, description and status as it was
\* when the request did not carry it, and the links as they were when it
\* carried no new_projects; and a step changes no collection but the one of
\* the request that commits in it, and removes none.
C20_Frame ==
    /\ [](\A s \in Slots :
            /\ Succeeded(req[s], {"set_icon", "clear_icon"})
               => /\ \A f \in {"user_id", "title", "description", "status"} : Kept(req[s], f)
                  /\ LinkedProjects(req[s].cid) = The(req[s].start).projects
            /\ Succeeded(req[s], {"edit"})
               => /\ \A f \in {"user_id", "icon_url", "color"} : Kept(req[s], f)
                  /\ req[s].title = None => Kept(req[s], "title")
                  /\ req[s].description = None => Kept(req[s], "description")
                  /\ req[s].status = None => Kept(req[s], "status")
                  /\ req[s].projects = None
                     => LinkedProjects(req[s].cid) = The(req[s].start).projects)
    /\ [][\A x \in DOMAIN db :
             \/ Untouched(x)
             \/ \E s \in Slots :
                   /\ req[s].cid = x /\ req[s].kind \in {"edit", "set_icon", "clear_icon"}
                   /\ req[s].tx.state = "open" /\ req'[s].tx.state = "committed"]_vars

\* An edit that carried a status only has committed on a collection that has
\* an icon and links, beside another collection.
C20_Witness ==
    \E s \in Slots :
        /\ Succeeded(req[s], {"edit"})
        /\ req[s].title = None /\ req[s].description = None /\ req[s].projects = None
        /\ req[s].status = Some("Private") /\ db[req[s].cid].status = "Private"
        /\ The(req[s].start).row.status = "Listed"
        /\ db[req[s].cid].icon_url # None
        /\ LinkedProjects(req[s].cid) # {}
        /\ Cardinality(DOMAIN db) = 2

====
